---- MODULE Spec2Model ----
(***************************************************************************)
(* A model of src/baseclass/_baseclass.py:                                 *)
(*   TrackedInstances       per-class registries of live instances         *)
(*   CallPostInit           the wrapped initializers and __post_init__     *)
(*   InstancingArgsTracker  the recorder of the instancing arguments       *)
(* Each component has its own specification (SpecReg, SpecHook, SpecRec,   *)
(* SpecMeta); the variables of the other components stay at their initial  *)
(* values.                                                                 *)
(***************************************************************************)
EXTENDS Integers, Sequences, FiniteSets, TLC

VARIABLES parent, hasReg, instances, clsOf, live, ret,
          own, target, stack, bodiesDone, hookLog,
          hier, constructed, callP, callK, raised, metadata, attempt

regVars == <<parent, hasReg, instances, clsOf, live, ret>>
hookVars == <<own, target, stack, bodiesDone, hookLog>>
recVars == <<hier, constructed, callP, callK, raised, metadata, attempt>>
vars == <<regVars, hookVars, recVars>>

(***************************************************************************)
(* Bounds of the registry model.                                           *)
(***************************************************************************)
NumSub == 2
MaxInst == 2

(***************************************************************************)
(* TrackedInstances: class 0 is TrackedInstances itself, classes 1..NumSub *)
(* are its (transitive) subclasses; parent[c] is the single base of c.     *)
(***************************************************************************)
Classes == 0 .. NumSub
NoClass == -1
InstIds == 1 .. MaxInst

Hierarchies ==
  { p \in [Classes -> {NoClass} \cup Classes] :
      /\ p[0] = NoClass
      /\ \A c \in Classes \ {0} : p[c] \in 0 .. (c - 1) }

\* cls.__mro__ restricted to the tracked classes, most-derived first
RECURSIVE Mro(_)
Mro(c) == IF c = NoClass THEN <<>> ELSE <<c>> \o Mro(parent[c])

MroSet(c) == { Mro(c)[k] : k \in 1 .. Len(Mro(c)) }

\* cls.__subclasses__(): the direct subclasses
Subclasses(c) == { s \in Classes : parent[s] = c }

\* 'instances' in cls.__dict__.keys()
HasOwnRegistry(c) == hasReg[c]

\* the class whose 'instances' attribute the lookup cls.instances finds:
\* the first class of the MRO holding one in its own __dict__, NoClass when
\* the lookup raises AttributeError
RECURSIVE FirstWithRegistry(_, _)
FirstWithRegistry(m, reg) ==
  IF m = <<>> THEN NoClass
  ELSE IF reg[Head(m)] THEN Head(m)
  ELSE FirstWithRegistry(Tail(m), reg)

AttrOwner(c, reg) == FirstWithRegistry(Mro(c), reg)

\* mutant: the registry test looks the attribute up through the MRO
NewNeedsRegistryInherited(c) == AttrOwner(c, hasReg) = NoClass
\* __new__, line 22: if 'instances' not in cls.__dict__.keys()
NewNeedsRegistry(c) == ~ HasOwnRegistry(c)

\* mutant: the registry test looks the attribute up through the MRO
GetMissingRegistryInherited(c) == AttrOwner(c, hasReg) = NoClass
\* get_instances, line 37: if 'instances' not in cls.__dict__.keys()
GetMissingRegistry(c) == ~ HasOwnRegistry(c)

Created == DOMAIN clsOf

\* TrackedInstances.__new__(cls)
New(c) ==
  /\ Cardinality(Created) < MaxInst
  /\ LET i == Cardinality(Created) + 1
         reg == IF NewNeedsRegistry(c) THEN [hasReg EXCEPT ![c] = TRUE] ELSE hasReg
         cleared == IF NewNeedsRegistry(c) THEN [instances EXCEPT ![c] = {}]
                    ELSE instances
         owner == AttrOwner(c, reg)
     IN /\ hasReg' = reg
        /\ instances' = [cleared EXCEPT ![owner] = @ \cup {i}]
        /\ clsOf' = [j \in Created \cup {i} |-> IF j = i THEN c ELSE clsOf[j]]
        /\ live' = live \cup {i}
  /\ ret' = [op |-> "new", cls |-> c, sel |-> {}, excl |-> {}, err |-> FALSE, val |-> {}]
  /\ UNCHANGED parent
  /\ UNCHANGED <<hookVars, recVars>>

\* the WeakSet drops an instance once nothing else refers to it
Reclaim(i) ==
  /\ i \in live
  /\ live' = live \ {i}
  /\ instances' = [c \in Classes |-> instances[c] \ {i}]
  /\ ret' = [op |-> "reclaim", cls |-> clsOf[i], sel |-> {}, excl |-> {}, err |-> FALSE, val |-> {}]
  /\ UNCHANGED <<parent, hasReg, clsOf>>
  /\ UNCHANGED <<hookVars, recVars>>

\* TrackedInstances.get_instances(selector); the selector is the set of
\* the instances it answers True for
GetInstancesResult(c, sel) ==
  IF GetMissingRegistry(c)
  THEN [err |-> TRUE, val |-> {}]
  ELSE [err |-> FALSE,
        val |-> { v \in instances[AttrOwner(c, hasReg)] : v \in sel }]

GetInstances(c, sel) ==
  /\ ret' = [op |-> "get", cls |-> c, sel |-> sel, excl |-> {},
             err |-> GetInstancesResult(c, sel).err,
             val |-> GetInstancesResult(c, sel).val]
  /\ UNCHANGED <<parent, hasReg, instances, clsOf, live>>
  /\ UNCHANGED <<hookVars, recVars>>

\* TrackedInstances.inst_and_subcls_inst(exclude): list(cls.instances), then
\* the same of every direct subclass not in exclude; an AttributeError of the
\* attribute lookup, at any depth, ends the call
RECURSIVE InstAndSubclsInst(_, _)
InstAndSubclsInst(c, exclude) ==
  LET owner == AttrOwner(c, hasReg)
      subs == { InstAndSubclsInst(s, exclude) : s \in Subclasses(c) \ exclude }
  IN IF owner = NoClass \/ \E r \in subs : r.err
     THEN [err |-> TRUE, val |-> {}]
     ELSE [err |-> FALSE, val |-> instances[owner] \cup UNION { r.val : r \in subs }]

CollectInstances(c, exclude) ==
  /\ ret' = [op |-> "collect", cls |-> c, sel |-> {}, excl |-> exclude,
             err |-> InstAndSubclsInst(c, exclude).err,
             val |-> InstAndSubclsInst(c, exclude).val]
  /\ UNCHANGED <<parent, hasReg, instances, clsOf, live>>
  /\ UNCHANGED <<hookVars, recVars>>

RegIdle ==
  /\ parent = [c \in Classes |-> IF c = 0 THEN NoClass ELSE c - 1]
  /\ hasReg = [c \in Classes |-> FALSE]
  /\ instances = [c \in Classes |-> {}]
  /\ clsOf = <<>>
  /\ live = {}
  /\ ret = [op |-> "none", cls |-> 0, sel |-> {}, excl |-> {}, err |-> FALSE, val |-> {}]

InitRegistry ==
  /\ parent \in Hierarchies
  /\ hasReg = [c \in Classes |-> FALSE]
  /\ instances = [c \in Classes |-> {}]
  /\ clsOf = <<>>
  /\ live = {}
  /\ ret = [op |-> "none", cls |-> 0, sel |-> {}, excl |-> {}, err |-> FALSE, val |-> {}]

NextReg ==
  \/ \E c \in Classes : New(c)
  \/ \E i \in InstIds : Reclaim(i)
  \/ \E c \in Classes, sel \in SUBSET live : GetInstances(c, sel)
  \/ \E c \in Classes, exclude \in SUBSET (Classes \ {0}) : CollectInstances(c, exclude)

(***************************************************************************)
(* C9: the registry in class C's own __dict__ holds only instances whose   *)
(* exact class is C, and every live instance is in the registry of its own *)
(* exact class, whatever the order of the constructions.                   *)
(***************************************************************************)
C9_OwnRegistryOnly ==
  /\ \A c \in Classes : \A i \in instances[c] : clsOf[i] = c
  /\ \A i \in live : i \in instances[clsOf[i]]

\* a subclass was instantiated before its ancestor, and both registries hold
\* their instance
C9_Witness ==
  \E c \in Classes, s \in Classes :
    /\ s # c /\ c \in MroSet(s)
    /\ \E i \in instances[s], j \in instances[c] : i < j

(***************************************************************************)
(* C8: get_instances(p) on C raises exactly when no instance of exactly C  *)
(* was ever constructed; otherwise it returns the live instances of        *)
(* exactly C for which p holds.                                            *)
(***************************************************************************)
C8_GetInstances ==
  ret.op = "get" =>
    /\ ret.err <=> ~ (\E i \in Created : clsOf[i] = ret.cls)
    /\ ~ ret.err => ret.val = { i \in live : clsOf[i] = ret.cls /\ i \in ret.sel }

\* a successful query whose predicate also holds of a live instance of a
\* strict subclass, which is not returned
C8_Witness ==
  /\ ret.op = "get" /\ ~ ret.err /\ ret.val # {}
  /\ \E i \in ret.sel \cap live :
       clsOf[i] # ret.cls /\ ret.cls \in MroSet(clsOf[i])

\* the live instances of C and of the descendants of C that are neither in
\* exclude nor below a class in exclude
ExpectedCollect(c, exclude) ==
  { i \in live :
      /\ c \in MroSet(clsOf[i])
      /\ \A d \in MroSet(clsOf[i]) : (d # c /\ c \in MroSet(d)) => d \notin exclude }

(***************************************************************************)
(* C7: inst_and_subcls_inst(E) on C returns exactly the live instances of  *)
(* C and of its non-excluded descendants, and so no instance of an         *)
(* ancestor of C, whichever classes have been instantiated so far (stated  *)
(* of the calls that return).                                              *)
(***************************************************************************)
C7_CollectExact ==
  (ret.op = "collect" /\ ~ ret.err) =>
    ret.val = ExpectedCollect(ret.cls, ret.excl)

(***************************************************************************)
(* CallPostInit: a chain of classes 1..Len(own), class k + 1 deriving from *)
(* class k and class 1 from CallPostInit; own[k] says that class k defines *)
(* its own __init__, whose body calls super().__init__.                    *)
(***************************************************************************)
MaxDepth == 3

Chains == UNION { [1 .. d -> BOOLEAN] : d \in 1 .. MaxDepth }

Frame(kind, k, pc) == [kind |-> kind, cls |-> k, pc |-> pc]

\* what the name __init__ resolves to on class k once the classes are defined:
\* the wrapper __init_subclass__ stored on k (line 66)
WrapperOf(k) == Frame("wrapper", k, "call")

\* the initializer of the bases of the chain's first class (object.__init__,
\* or that of a plain mixin), which is not wrapped
BaseInit == Frame("base", 0, "call")

\* super().__init__ in the body of class k
SuperInit(k) == IF k = 1 THEN BaseInit ELSE WrapperOf(k - 1)

\* init=cls.__init__ (line 62), read while class k is being defined: the body
\* class k defines, else what it inherits
WrappedInit(k) == IF own[k] THEN Frame("body", k, "pre") ELSE SuperInit(k)

\* mutant: isinstance(self, cls)
TypeIsInstance(t, k) == t >= k
\* line 64: type(self) == cls
TypeIsExactly(t, k) == t = k

Top == stack[Len(stack)]
Pop == SubSeq(stack, 1, Len(stack) - 1)
SetTopPc(pc) == [stack EXCEPT ![Len(stack)].pc = pc]

\* C(*args, **kwargs): type.__call__ runs C.__init__, the wrapper of C
Construct(t) ==
  /\ stack = <<>> /\ target = 0
  /\ t \in DOMAIN own
  /\ target' = t
  /\ stack' = <<WrapperOf(t)>>
  /\ UNCHANGED <<own, bodiesDone, hookLog>>
  /\ UNCHANGED <<regVars, recVars>>

\* new_init, line 63: init(self, *args, **kwargs)
WrapperCallsInit ==
  /\ stack # <<>> /\ Top.kind = "wrapper" /\ Top.pc = "call"
  /\ stack' = Append(SetTopPc("check"), WrappedInit(Top.cls))
  /\ UNCHANGED <<own, target, bodiesDone, hookLog>>
  /\ UNCHANGED <<regVars, recVars>>

\* new_init, lines 64-65: the type test and the call of __post_init__
WrapperChecksType ==
  /\ stack # <<>> /\ Top.kind = "wrapper" /\ Top.pc = "check"
  /\ hookLog' = IF TypeIsExactly(target, Top.cls)
                THEN Append(hookLog, [by |-> Top.cls, done |-> bodiesDone,
                                      open |-> { stack[j].cls : j \in { x \in 1 .. Len(stack) : stack[x].kind = "body" } }])
                ELSE hookLog
  /\ stack' = Pop
  /\ UNCHANGED <<own, target, bodiesDone>>
  /\ UNCHANGED <<regVars, recVars>>

\* the body of an __init__ reaches its super().__init__(...) call
BodyForwards ==
  /\ stack # <<>> /\ Top.kind = "body" /\ Top.pc = "pre"
  /\ stack' = Append(SetTopPc("post"), SuperInit(Top.cls))
  /\ UNCHANGED <<own, target, bodiesDone, hookLog>>
  /\ UNCHANGED <<regVars, recVars>>

\* the body of an __init__ returns
BodyReturns ==
  /\ stack # <<>> /\ Top.kind = "body" /\ Top.pc = "post"
  /\ bodiesDone' = bodiesDone \cup {Top.cls}
  /\ stack' = Pop
  /\ UNCHANGED <<own, target, hookLog>>
  /\ UNCHANGED <<regVars, recVars>>

\* the unwrapped initializer at the end of the chain returns
BaseInitReturns ==
  /\ stack # <<>> /\ Top.kind = "base"
  /\ stack' = Pop
  /\ UNCHANGED <<own, target, bodiesDone, hookLog>>
  /\ UNCHANGED <<regVars, recVars>>

Constructed == target # 0 /\ stack = <<>>

HookIdle ==
  /\ own = <<TRUE>>
  /\ target = 0
  /\ stack = <<>>
  /\ bodiesDone = {}
  /\ hookLog = <<>>

InitHook ==
  /\ own \in Chains
  /\ target = 0
  /\ stack = <<>>
  /\ bodiesDone = {}
  /\ hookLog = <<>>

NextHook ==
  \/ \E t \in 1 .. MaxDepth : Construct(t)
  \/ WrapperCallsInit
  \/ WrapperChecksType
  \/ BodyForwards
  \/ BodyReturns
  \/ BaseInitReturns

(***************************************************************************)
(* C1: constructing one instance of class C calls __post_init__ exactly    *)
(* once, from the wrapper of C itself, and only when every __init__ body   *)
(* of the chain from C up has returned.                                    *)
(***************************************************************************)
C1_HookOnce ==
  /\ Len(hookLog) <= 1
  /\ \A n \in 1 .. Len(hookLog) :
       /\ hookLog[n].by = target
       /\ hookLog[n].open = {}
       /\ hookLog[n].done = { k \in 1 .. target : own[k] }
  /\ Constructed => Len(hookLog) = 1

\* a finished construction of a class with at least two ancestors in the
\* chain, one defining its own __init__ and one inheriting it
C1_Witness ==
  /\ Constructed /\ target >= 3 /\ Len(hookLog) = 1
  /\ \E j \in 1 .. target, k \in 1 .. target : own[j] /\ ~ own[k]

(***************************************************************************)
(* InstancingArgsTracker.  A hierarchy is a chain of classes, levels[1]    *)
(* the most-derived one and the last one a direct subclass of              *)
(* InstancingArgsTracker.  A level that defines its own __init__ declares  *)
(* nreq parameters without default, then ndef parameters with a default,   *)
(* then *args (var "pos", "both") and **kwargs (var "kw", "both").         *)
(***************************************************************************)
MaxLevels == 2
MaxReq == 1
MaxDef == 1
MaxArgs == 4

\* inspect.Parameter.empty
Empty == "<empty>"

ParamNames ==
  << <<"a1", "a2", "a3", "a4">>, <<"b1", "b2", "b3", "b4">>,
     <<"c1", "c2", "c3", "c4">>, <<"d1", "d2", "d3", "d4">> >>
DefaultVals ==
  << <<"va1", "va2", "va3", "va4">>, <<"vb1", "vb2", "vb3", "vb4">>,
     <<"vc1", "vc2", "vc3", "vc4">>, <<"vd1", "vd2", "vd3", "vd4">> >>
ArgVals ==
  << "x1", "x2", "x3", "x4", "x5", "x6", "x7", "x8",
     "x9", "x10", "x11", "x12", "x13", "x14", "x15", "x16" >>
\* keywords that name no declared parameter
ExtraKeys == {"zzz", "kwargs"}
ExtraChoices == {{}, ExtraKeys}
ExtraVal == "xk"

VarKinds == {"none", "kw", "both"}

Level(o, r, d, v) == [own |-> o, nreq |-> r, ndef |-> d, var |-> v]

OwnLevels == { Level(TRUE, r, d, v) : r \in 0 .. MaxReq, d \in 0 .. MaxDef, v \in VarKinds }
\* class X(Base): pass
InheritingLevel == Level(FALSE, 0, 0, "none")

\* the last class of the chain defines its own __init__
LevelSeqs ==
  UNION { { s \in [1 .. n -> OwnLevels \cup {InheritingLevel}] : s[n].own } : n \in 1 .. MaxLevels }

\* shared: the levels reuse the parameter names of the first level
HierarchiesRec == [levels : LevelSeqs, shared : BOOLEAN]

\* the chains of the tests: every class defines its __init__, every class but
\* the last declares *args and **kwargs and passes them to super().__init__,
\* and the parameter names differ
ForwardingSeqs ==
  UNION { { s \in [1 .. n -> OwnLevels] : \A l \in 1 .. (n - 1) : s[l].var = "both" }
          : n \in 1 .. MaxLevels }

ForwardingHierarchies == [levels : ForwardingSeqs, shared : {FALSE}]

Param(name, kind, default) == [name |-> name, kind |-> kind, default |-> default]

\* the parameters of the __init__ that level l defines
OwnSignature(h, l) ==
  LET lv == h.levels[l]
      row == IF h.shared THEN 1 ELSE l
  IN [j \in 1 .. lv.nreq |-> Param(ParamNames[row][j], "pk", Empty)]
     \o [j \in 1 .. lv.ndef |->
           Param(ParamNames[row][lv.nreq + j], "pk", DefaultVals[l][lv.nreq + j])]
     \o (IF lv.var = "both" THEN <<Param("args", "varpos", Empty)>> ELSE <<>>)
     \o (IF lv.var \in {"kw", "both"} THEN <<Param("kwargs", "varkw", Empty)>> ELSE <<>>)

\* the level whose __init__ a construction of level l runs first
RECURSIVE Provider(_, _)
Provider(h, l) == IF h.levels[l].own THEN l ELSE Provider(h, l + 1)

\* inspect.signature(base) for the classes of inspect.getmro(self.__class__):
\* a class that defines no __init__ shows the signature it inherits (the
\* wrappers are transparent, functools.wraps); then InstancingArgsTracker
\* (the wrapped object.__init__: *args, **kwargs), CallPostInit, ABC, object
MroSignatures(h) ==
  [l \in 1 .. Len(h.levels) |-> OwnSignature(h, Provider(h, l))]
  \o << <<Param("args", "varpos", Empty), Param("kwargs", "varkw", Empty)>>,
        <<>>, <<>>, <<>> >>

IsVariadic(p) == p.kind \in {"varpos", "varkw"}

\* d.update(u) of two dicts
Update(d, u) ==
  [k \in DOMAIN d \cup DOMAIN u |-> IF k \in DOMAIN u THEN u[k] ELSE d[k]]

\* d with d[k] = v
SetKey(d, k, v) == [x \in DOMAIN d \cup {k} |-> IF x = k THEN v ELSE d[x]]

\* d with the keys ks popped
DropKeys(d, ks) == [x \in DOMAIN d \ ks |-> d[x]]

\* lines 100-105: the parameters without default that are not variadic
ArgParams(params) ==
  LET T(p) == p.default = Empty /\ ~ IsVariadic(p) IN SelectSeq(params, T)

\* lines 107-112: the parameters with a default that are not variadic
KwParams(params) ==
  LET T(p) == p.default # Empty /\ ~ IsVariadic(p) IN SelectSeq(params, T)

\* line 115: data.update(**kw)
RECURSIVE UpdateDefaults(_, _)
UpdateDefaults(data, kw) ==
  IF kw = <<>> THEN data
  ELSE UpdateDefaults(SetKey(data, Head(kw).name, Head(kw).default), Tail(kw))

SeedDefaults(data, params) == UpdateDefaults(data, KwParams(params))

\* lines 118-119: for k, v in arg.items(): data[k] = args.pop(0) if args else v.default
RECURSIVE BindRequired(_, _, _)
BindRequired(arg, args, data) ==
  IF arg = <<>> THEN [args |-> args, data |-> data]
  ELSE IF Len(args) > 0
       THEN BindRequired(Tail(arg), Tail(args), SetKey(data, Head(arg).name, Head(args)))
       ELSE BindRequired(Tail(arg), args, SetKey(data, Head(arg).name, Head(arg).default))

\* lines 123-132: for i in range(len(args)): idx = len(arg) + i; stop at a
\* variadic parameter, else data[params_list[idx].name] = args.pop(0);
\* params_list[idx] past the end raises IndexError
RECURSIVE BindLeftover(_, _, _, _, _)
BindLeftover(params, narg, i, todo, st) ==
  IF i >= todo THEN st
  ELSE LET idx == narg + i + 1
       IN IF idx > Len(params) THEN [st EXCEPT !.err = TRUE]
          ELSE IF IsVariadic(params[idx]) THEN st
          ELSE BindLeftover(params, narg, i + 1, todo,
                 [st EXCEPT !.args = Tail(st.args),
                            !.data = SetKey(st.data, params[idx].name, Head(st.args))])

\* mutant: the walk ends after the first class
StopsWalkAlways(params) == TRUE
\* lines 138-141: the walk ends at a class whose signature has no variadic
StopsWalk(params) == \A j \in 1 .. Len(params) : ~ IsVariadic(params[j])

\* lines 94-141: the walk over inspect.getmro(self.__class__)
RECURSIVE Walk(_, _, _)
Walk(sigs, args, data) ==
  IF sigs = <<>> THEN [err |-> FALSE, args |-> args, data |-> data]
  ELSE LET params == Head(sigs)
           arg == ArgParams(params)
           b == BindRequired(arg, args, SeedDefaults(data, params))
           st == BindLeftover(params, Len(arg), 0, Len(b.args),
                              [err |-> FALSE, args |-> b.args, data |-> b.data])
       IN IF st.err \/ StopsWalk(params) THEN st
          ELSE Walk(Tail(sigs), st.args, st.data)

ReservedKeys == {"cls", "self", "args", "kwargs"}

\* mutant: the clean-up of lines 148-149 is skipped
CleanUpNone(data) == data
\* lines 148-149: for key in ['cls', 'self', 'args', 'kwargs']: data.pop(key, None)
CleanUp(data) == DropKeys(data, ReservedKeys)

\* line 144: data.update(**kwargs)
Overlay(data, kwargs) == Update(data, kwargs)

\* InstancingArgsTracker.__post_init__(*args, **kwargs): err when the walk
\* raised IndexError (self._metadata is then never set)
PostInit(h, args, kwargs) ==
  LET w == Walk(MroSignatures(h), args, <<>>)
  IN IF w.err THEN [err |-> TRUE, md |-> <<>>]
     ELSE [err |-> FALSE, md |-> CleanUp(Overlay(w.data, kwargs))]

\* the non-variadic parameters of a signature
Slots(params) == LET T(p) == ~ IsVariadic(p) IN SelectSeq(params, T)

HasKind(params, kind) == \E j \in 1 .. Len(params) : params[j].kind = kind

NamesOf(ps) == { ps[j].name : j \in 1 .. Len(ps) }

\* the levels that define an __init__, most-derived first
OwnLevelsOf(h) ==
  LET RECURSIVE F(_)
      F(l) == IF l > Len(h.levels) THEN <<>>
              ELSE (IF h.levels[l].own THEN <<l>> ELSE <<>>) \o F(l + 1)
  IN F(1)

\* the non-variadic parameters of the chain's initializers in chain order
ChainSlots(h) ==
  LET o == OwnLevelsOf(h)
      RECURSIVE F(_)
      F(j) == IF j > Len(o) THEN <<>> ELSE Slots(OwnSignature(h, o[j])) \o F(j + 1)
  IN F(1)

\* the value a call gives the parameter at chain position i, by position or
\* by keyword
FirstPos(cs, name) == CHOOSE i \in 1 .. Len(cs) :
                        /\ cs[i].name = name
                        /\ \A j \in 1 .. (i - 1) : cs[j].name # name

KwValue(cs, k) == IF k \in ExtraKeys THEN ExtraVal ELSE ArgVals[FirstPos(cs, k)]

\* the keyword names of a call: none of the declared parameters, the required
\* ones the n positional values leave unbound, or all they leave unbound
KwModes == {"none", "required", "rest"}

DeclaredKeys(cs, n, mode) ==
  LET bound == { cs[i].name : i \in 1 .. (IF n < Len(cs) THEN n ELSE Len(cs)) }
  IN IF mode = "none" THEN {}
     ELSE { cs[i].name : i \in { x \in 1 .. Len(cs) :
               /\ x > n
               /\ cs[x].name \notin bound
               /\ mode = "required" => cs[x].default = Empty } }

\* new_init, line 63: the call init(self, *args, **kwargs) of the outermost
\* initializer binds n positional values and the keywords keys without a
\* TypeError
LeafAccepts(h, n, keys) ==
  LET params == OwnSignature(h, Provider(h, 1))
      slots == Slots(params)
      npos == IF n < Len(slots) THEN n ELSE Len(slots)
  IN /\ HasKind(params, "varpos") \/ n <= Len(slots)
     /\ HasKind(params, "varkw") \/ keys \subseteq NamesOf(slots)
     /\ \A j \in 1 .. npos : slots[j].name \notin keys
     /\ \A j \in (npos + 1) .. Len(slots) :
          slots[j].default = Empty => slots[j].name \in keys

\* the same call when every __init__ body of the chain is
\* super().__init__(*args, **kwargs): each level binds what it declares and
\* passes the rest on, and the last level must take all that is left
RECURSIVE ChainAccepts(_, _, _, _)
ChainAccepts(h, o, n, keys) ==
  LET params == OwnSignature(h, Head(o))
      slots == Slots(params)
      npos == IF n < Len(slots) THEN n ELSE Len(slots)
      last == Len(o) = 1
  IN /\ \A j \in 1 .. npos : slots[j].name \notin keys
     /\ \A j \in (npos + 1) .. Len(slots) :
          slots[j].default = Empty => slots[j].name \in keys
     /\ IF last
        THEN /\ HasKind(params, "varpos") \/ n <= Len(slots)
             /\ HasKind(params, "varkw") \/ keys \subseteq NamesOf(slots)
        ELSE /\ HasKind(params, "varpos") /\ HasKind(params, "varkw")
             /\ ChainAccepts(h, Tail(o), n - npos, keys \ NamesOf(slots))

ForwardAccepts(h, n, keys) == ChainAccepts(h, OwnLevelsOf(h), n, keys)

NoAttempt == [op |-> "none", key |-> "", err |-> FALSE, before |-> <<>>]

\* the call C(*P, **K) with n positional values and the keywords of mode and
\* extra: the first `depth` initializers of the chain accept it (new_init,
\* line 63) and __post_init__ (line 65) runs on the same arguments
Records(P, K) ==
  /\ callP' = P
  /\ callK' = K
  /\ raised' = PostInit(hier, P, K).err
  /\ metadata' = PostInit(hier, P, K).md

BindsKeys(cs, n, keys, depth) ==
  /\ IF depth = 1 THEN LeafAccepts(hier, n, keys) ELSE ForwardAccepts(hier, n, keys)
  /\ Records(SubSeq(ArgVals, 1, n), [k \in keys |-> KwValue(cs, k)])

Binds(cs, n, mode, extra, depth) ==
  BindsKeys(cs, n, DeclaredKeys(cs, n, mode) \cup extra, depth)

\* C(*args, **kwargs) of the most-derived class: the initializers run, then
\* __post_init__ records the arguments (line 152) unless it raises
ConstructObj(n, mode, extra) ==
  /\ ~ constructed
  /\ Binds(ChainSlots(hier), n, mode, extra, 1)
  /\ constructed' = TRUE
  /\ UNCHANGED <<hier, attempt>>
  /\ UNCHANGED <<regVars, hookVars>>

\* the same construction of a chain whose __init__ bodies are
\* super().__init__(*args, **kwargs)
ConstructForwarding(n, mode, extra) ==
  /\ ~ constructed
  /\ Binds(ChainSlots(hier), n, mode, extra, Len(hier.levels))
  /\ constructed' = TRUE
  /\ UNCHANGED <<hier, attempt>>
  /\ UNCHANGED <<regVars, hookVars>>

\* lines 154-157: the property returns self._metadata itself, so a change
\* made to the returned dict is a change of the stored one
ThroughAccessor(stored, changed) == changed

MutKeys == {"new"}
MutVal == "mut"

\* inst.metadata[k] = v
SetItem(k) ==
  /\ constructed /\ ~ raised
  /\ metadata' = ThroughAccessor(metadata, SetKey(metadata, k, MutVal))
  /\ attempt' = [op |-> "setitem", key |-> k, err |-> FALSE, before |-> metadata]
  /\ UNCHANGED <<hier, constructed, callP, callK, raised>>
  /\ UNCHANGED <<regVars, hookVars>>

\* del inst.metadata[k], k a key of the dict
DelItem(k) ==
  /\ constructed /\ ~ raised
  /\ k \in DOMAIN metadata
  /\ metadata' = ThroughAccessor(metadata, DropKeys(metadata, {k}))
  /\ attempt' = [op |-> "delitem", key |-> k, err |-> FALSE, before |-> metadata]
  /\ UNCHANGED <<hier, constructed, callP, callK, raised>>
  /\ UNCHANGED <<regVars, hookVars>>

\* inst.metadata = v: the property has no setter, AttributeError
SetAttr ==
  /\ constructed /\ ~ raised
  /\ attempt' = [op |-> "setattr", key |-> "", err |-> TRUE, before |-> metadata]
  /\ UNCHANGED <<hier, constructed, callP, callK, raised, metadata>>
  /\ UNCHANGED <<regVars, hookVars>>

RecIdle ==
  /\ hier = [levels |-> <<Level(TRUE, 0, 0, "none")>>, shared |-> FALSE]
  /\ constructed = FALSE
  /\ callP = <<>>
  /\ callK = <<>>
  /\ raised = FALSE
  /\ metadata = <<>>
  /\ attempt = NoAttempt

InitRecorder ==
  /\ hier \in HierarchiesRec
  /\ constructed = FALSE
  /\ callP = <<>>
  /\ callK = <<>>
  /\ raised = FALSE
  /\ metadata = <<>>
  /\ attempt = NoAttempt

InitForwarding ==
  /\ hier \in ForwardingHierarchies
  /\ constructed = FALSE
  /\ callP = <<>>
  /\ callK = <<>>
  /\ raised = FALSE
  /\ metadata = <<>>
  /\ attempt = NoAttempt

\* a single class without variadics, as the Parent of the tests
InitAccessor ==
  /\ hier \in { h \in HierarchiesRec :
                  Len(h.levels) = 1 /\ h.levels[1].var = "none" /\ ~ h.shared }
  /\ constructed = FALSE
  /\ callP = <<>>
  /\ callK = <<>>
  /\ raised = FALSE
  /\ metadata = <<>>
  /\ attempt = NoAttempt

NextRec ==
  \E n \in 0 .. MaxArgs, mode \in KwModes, extra \in ExtraChoices :
    ConstructObj(n, mode, extra)

NextStd ==
  \E n \in 0 .. MaxArgs, mode \in KwModes, extra \in ExtraChoices :
    ConstructForwarding(n, mode, extra)

NextMeta ==
  \/ \E n \in 0 .. MaxArgs, mode \in KwModes : ConstructObj(n, mode, {})
  \/ \E k \in DOMAIN metadata \cup MutKeys : SetItem(k)
  \/ \E k \in DOMAIN metadata : DelItem(k)
  \/ SetAttr

(***************************************************************************)
(* The claims about the recorder.                                          *)
(***************************************************************************)
CS == ChainSlots(hier)
NPos == Len(callP)
BaseLevel == hier.levels[Len(hier.levels)]
AllOwn == \A l \in 1 .. Len(hier.levels) : hier.levels[l].own
\* every __init__ above the last one declares and forwards *args, **kwargs
Forwarding ==
  \A l \in 1 .. (Len(hier.levels) - 1) :
    hier.levels[l].own => hier.levels[l].var = "both"
TimesDeclared(name) == Cardinality({ i \in 1 .. Len(CS) : CS[i].name = name })

(***************************************************************************)
(* C2: in a chain whose classes all declare required, defaulted, *args and *)
(* **kwargs parameters and forward them, the last class declaring required *)
(* and defaulted ones only, a construction with n positional values and no *)
(* keyword binds the i-th value to the i-th non-variadic parameter in      *)
(* chain order and every parameter past n to its default: one key per      *)
(* parameter.                                                              *)
(***************************************************************************)
C2_PositionalBinding ==
  ( /\ constructed /\ AllOwn /\ Forwarding /\ ~ hier.shared
    /\ BaseLevel.var = "none"
    /\ DOMAIN callK = {} ) =>
      /\ ~ raised
      /\ DOMAIN metadata = NamesOf(CS)
      /\ \A i \in 1 .. Len(CS) :
           metadata[CS[i].name] = IF i <= NPos THEN callP[i] ELSE CS[i].default

\* a two-level chain built from positional values that fill the derived
\* class's parameters and reach into the base's, whose last parameter keeps
\* its default
C2_Witness ==
  /\ constructed /\ ~ raised /\ Len(hier.levels) = 2 /\ BaseLevel.var = "none"
  /\ hier.levels[1].nreq = 1 /\ hier.levels[1].ndef = 1
  /\ BaseLevel.nreq = 1 /\ BaseLevel.ndef = 1
  /\ DOMAIN callK = {} /\ NPos = 3
  /\ metadata["b1"] = "x3" /\ metadata["b2"] = "vb2"

\* the keywords of the call that passes by keyword what the recorded call
\* passed by position
AllKeywordCall ==
  [k \in DOMAIN callK \cup { CS[i].name : i \in 1 .. NPos } |->
     IF k \in DOMAIN callK THEN callK[k] ELSE callP[FirstPos(CS, k)]]

(***************************************************************************)
(* C3: whichever valid way the construction call passes the same values    *)
(* (by position, by keyword, or a positional prefix and keywords), the     *)
(* metadata is the same mapping: here, the one of the all-keyword call.    *)
(***************************************************************************)
C3_SameMetadata ==
  ( /\ constructed /\ ~ hier.shared /\ Forwarding
    /\ NPos <= Len(CS)
    /\ DOMAIN callK \cap ExtraKeys = {}
    /\ ForwardAccepts(hier, NPos, DOMAIN callK) ) =>
      /\ ~ raised
      /\ metadata = PostInit(hier, <<>>, AllKeywordCall).md

(***************************************************************************)
(* C4: a parameter name declared at several levels keeps the value bound   *)
(* by the most-derived level that supplied one (a positional value or its  *)
(* default); no deeper ancestor overwrites it.                             *)
(***************************************************************************)
C4_MostDerivedKept ==
  ( /\ constructed /\ ~ raised /\ AllOwn /\ Forwarding
    /\ NPos <= Len(CS)
    /\ ForwardAccepts(hier, NPos, DOMAIN callK) ) =>
      \A x \in NamesOf(CS) \ DOMAIN callK :
        LET i == FirstPos(CS, x)
        IN (TimesDeclared(x) > 1 /\ (i <= NPos \/ CS[i].default # Empty)) =>
             /\ x \in DOMAIN metadata
             /\ metadata[x] = IF i <= NPos THEN callP[i] ELSE CS[i].default

(***************************************************************************)
(* C5: every key of the metadata is the name of a non-variadic parameter   *)
(* declared in the chain, and no key is a receiver or variadic-collector   *)
(* name.                                                                   *)
(***************************************************************************)
C5_DeclaredKeysOnly ==
  (constructed /\ ~ raised) =>
    /\ DOMAIN metadata \subseteq NamesOf(CS)
    /\ DOMAIN metadata \cap ReservedKeys = {}

(***************************************************************************)
(* C5 as amended: every key of the metadata is the name of a non-variadic  *)
(* parameter declared in the chain or a keyword of the construction call,  *)
(* and no key is a receiver or variadic-collector name.                    *)
(***************************************************************************)
C5_DeclaredOrKeyword ==
  (constructed /\ ~ raised) =>
    /\ DOMAIN metadata \subseteq (NamesOf(CS) \cup DOMAIN callK)
    /\ DOMAIN metadata \cap ReservedKeys = {}

\* a two-level chain built with keywords that only **kwargs takes, one of
\* them named kwargs: the first is recorded, the second is not
C5_Witness ==
  /\ constructed /\ ~ raised /\ Len(hier.levels) = 2
  /\ ExtraKeys \subseteq DOMAIN callK
  /\ "zzz" \in DOMAIN metadata /\ "kwargs" \notin DOMAIN metadata
  /\ NPos >= 1 /\ NamesOf(CS) \cap DOMAIN metadata # {}

(***************************************************************************)
(* C10: with more positional values than non-variadic parameters in the    *)
(* chain, at an ancestor without *args the leftover values are dropped:    *)
(* no error, no extra key, and the values that fit are recorded.           *)
(***************************************************************************)
C10_LeftoverDropped ==
  ( /\ constructed /\ AllOwn /\ Forwarding /\ ~ hier.shared
    /\ BaseLevel.var # "both"
    /\ DOMAIN callK = {}
    /\ NPos > Len(CS) ) =>
      /\ ~ raised
      /\ DOMAIN metadata = NamesOf(CS)
      /\ \A i \in 1 .. Len(CS) : metadata[CS[i].name] = callP[i]

(***************************************************************************)
(* C6: after construction, any attempt to add, overwrite or remove an      *)
(* entry of the mapping the metadata accessor returns fails with an error  *)
(* and leaves the stored metadata as it was.                               *)
(***************************************************************************)
C6_EntriesImmutable ==
  attempt.op \in {"setitem", "delitem"} =>
    /\ attempt.err
    /\ metadata = attempt.before


InitReg == InitRegistry /\ HookIdle /\ RecIdle
SpecReg == InitReg /\ [][NextReg]_vars

InitHookSpec == InitHook /\ RegIdle /\ RecIdle
SpecHook == InitHookSpec /\ [][NextHook]_vars

InitRec == InitRecorder /\ RegIdle /\ HookIdle
SpecRec == InitRec /\ [][NextRec]_vars

InitStd == InitForwarding /\ RegIdle /\ HookIdle
SpecStd == InitStd /\ [][NextStd]_vars

InitMeta == InitAccessor /\ RegIdle /\ HookIdle
SpecMeta == InitMeta /\ [][NextMeta]_vars

====
